---- MODULE Spec2Model ----
(***************************************************************************)
(* A model of musakbrainz.py: the candidate matching engine                *)
(* (find_best_release_group), the confirmable side actions of main, the    *)
(* side-by-side formatter, the local track order and the artist-credit     *)
(* flattening.                                                             *)
(*                                                                         *)
(* Text is a sequence of one-character strings, so that strip(), lower(),  *)
(* int() and padding are computed character by character.  Identifiers     *)
(* (MBIDs) are sequences of opaque tokens; "NO_RG_" + rid is the token     *)
(* "NO_RG_" followed by the tokens of rid.                                 *)
(***************************************************************************)
EXTENDS Integers, Sequences, FiniteSets, TLC

\* ------------------------------------------------------------------ bounds
\* the most releases a search returns in the model (the program asks for 10)
MaxFound == 3
\* the most audio files the local directory holds in the model
MaxLocal == 3
\* the most lines on either side of one side_by_side_format call
MaxLines == 2
\* the widest left column of the model (the program's callers pass 60)
MaxWidth == 2
\* the most local tracks sorted at once
MaxTracks == 2
\* the longest artist-credit list
MaxCredits == 3
\* the most releases of one release-group
MaxGroup == 3

\* ------------------------------------------------------------------ text
Max(a, b) == IF a >= b THEN a ELSE b

Digits == {"0", "1", "2", "3", "4", "5", "6", "7", "8", "9"}

DigitVal(c) ==
  CASE c = "0" -> 0 [] c = "1" -> 1 [] c = "2" -> 2 [] c = "3" -> 3
    [] c = "4" -> 4 [] c = "5" -> 5 [] c = "6" -> 6 [] c = "7" -> 7
    [] c = "8" -> 8 [] c = "9" -> 9

\* the whitespace of str.strip() that the model's alphabet holds
IsSpace(c) == c = " "

RECURSIVE LStrip(_)
LStrip(s) == IF s # <<>> /\ IsSpace(Head(s)) THEN LStrip(Tail(s)) ELSE s

RECURSIVE RStrip(_)
RStrip(s) ==
  IF s # <<>> /\ IsSpace(s[Len(s)]) THEN RStrip(SubSeq(s, 1, Len(s) - 1)) ELSE s

\* str.strip()
Strip(s) == RStrip(LStrip(s))

LowerChar(c) ==
  CASE c = "Y" -> "y" [] c = "E" -> "e" [] c = "S" -> "s"
    [] c = "N" -> "n" [] c = "O" -> "o" [] OTHER -> c

\* str.lower()
Lower(s) == [k \in 1..Len(s) |-> LowerChar(s[k])]

RECURSIVE DigitsValue(_)
DigitsValue(s) ==
  IF s = <<>> THEN 0
  ELSE 10 * DigitsValue(SubSeq(s, 1, Len(s) - 1)) + DigitVal(s[Len(s)])

AllDigits(s) == s # <<>> /\ \A k \in 1..Len(s) : s[k] \in Digits

\* int(s): surrounding whitespace is dropped, then an optional sign and at
\* least one digit; anything else raises ValueError (ok = FALSE).
int(s) ==
  LET t == Strip(s)
      signed == t # <<>> /\ Head(t) \in {"+", "-"}
      body == IF signed THEN Tail(t) ELSE t
  IN  IF AllDigits(body)
        THEN [ok |-> TRUE,
              val |-> IF signed /\ Head(t) = "-" THEN 0 - DigitsValue(body)
                      ELSE DigitsValue(body)]
        ELSE [ok |-> FALSE, val |-> 0]

\* ------------------------------------------------------------------ remote data
\* release ids in the order the search returns them
RIDs == << <<"r1">>, <<"r2">>, <<"r3">>, <<"r4">>, <<"r5">> >>

\* a release's "release-group" entry: absent ("none"), present without an
\* id ("noid"), or a release-group with an id
NoRG == [kind |-> "none", id |-> <<>>]
RGs == {NoRG, [kind |-> "noid", id |-> <<>>],
        [kind |-> "rg", id |-> <<"g1">>], [kind |-> "rg", id |-> <<"g2">>]}

\* a release's medium-list, as the length of each medium's track-list
Mediums == { <<2>>, <<1, 3>> }

Release(rid) == [id : {rid}, rg : RGs, media : Mediums]

NullRel == [id |-> <<>>, rg |-> NoRG, media |-> <<>>]
\* (None, None)
NoneNone == [ok |-> FALSE, rel |-> NullRel, rg |-> NoRG]

RECURSIVE SumSeq(_)
SumSeq(s) == IF s = <<>> THEN 0 ELSE Head(s) + SumSeq(Tail(s))

get_mb_release_total_tracks(mb_release) == SumSeq(mb_release.media)

abs(x) == IF x < 0 THEN 0 - x ELSE x

RECURSIVE BestFromLastWins(_, _, _, _)
\* a loop in which a later release of equal difference replaces the best
BestFromLastWins(rels, local, best, best_diff) ==
  IF rels = <<>> THEN [rel |-> best, diff |-> best_diff]
  ELSE LET diff == abs(get_mb_release_total_tracks(Head(rels)) - local)
       IN  IF diff <= best_diff
             THEN BestFromLastWins(Tail(rels), local, Head(rels), diff)
             ELSE BestFromLastWins(Tail(rels), local, best, best_diff)

RECURSIVE BestFrom(_, _, _, _)
BestFrom(rels, local, best, best_diff) ==
  IF rels = <<>> THEN [rel |-> best, diff |-> best_diff]
  ELSE LET diff == abs(get_mb_release_total_tracks(Head(rels)) - local)
       IN  IF diff < best_diff
             THEN BestFrom(Tail(rels), local, Head(rels), diff)
             ELSE BestFrom(Tail(rels), local, best, best_diff)

\* the first release of the group starts as best; a later one replaces it
\* only when strictly closer
get_best_release_for_rg(rg_releases, local) ==
  BestFrom(Tail(rg_releases), local, Head(rg_releases),
           abs(get_mb_release_total_tracks(Head(rg_releases)) - local))

\* ------------------------------------------------------------------ grouping
\* one key for every release without a release-group
GroupKeyShared(rid, release_data) ==
  IF release_data.rg.kind # "rg" THEN <<"NO_RG_">>
  ELSE release_data.rg.id

\* the key a fetched release is grouped under
GroupKey(rid, release_data) ==
  IF release_data.rg.kind # "rg" THEN <<"NO_RG_">> \o rid
  ELSE release_data.rg.id

\* groups.setdefault(rgid, []).append(release_data): groups is an insertion
\* ordered dict, modelled as a sequence of [rgid, releases]
SetDefaultAppend(gs, rgid, release_data) ==
  IF \E k \in 1..Len(gs) : gs[k].rgid = rgid
    THEN [k \in 1..Len(gs) |->
            IF gs[k].rgid = rgid
              THEN [gs[k] EXCEPT !.releases = Append(@, release_data)]
              ELSE gs[k]]
    ELSE Append(gs, [rgid |-> rgid, releases |-> <<release_data>>])

\* one candidate per group, in the dict's order
Candidates(gs, local) ==
  [k \in 1..Len(gs) |->
     LET b == get_best_release_for_rg(gs[k].releases, local)
     IN  [rgid |-> gs[k].rgid, rel |-> b.rel, diff |-> b.diff,
          rg |-> gs[k].releases[1].rg]]

RECURSIVE InsertByDiff(_, _)
InsertByDiff(sorted, c) ==
  IF sorted = <<>> THEN <<c>>
  ELSE IF c.diff < sorted[Len(sorted)].diff
    THEN Append(InsertByDiff(SubSeq(sorted, 1, Len(sorted) - 1), c),
                sorted[Len(sorted)])
    ELSE Append(sorted, c)

\* the sort left out
Unsorted(cs) == cs

RECURSIVE SortByDiff(_)
\* list.sort(key=best_diff): a stable sort
SortByDiff(cs) ==
  IF cs = <<>> THEN <<>>
  ELSE InsertByDiff(SortByDiff(SubSeq(cs, 1, Len(cs) - 1)), cs[Len(cs)])

\* a filter that keeps every candidate from the minimum up
IsMinDiffOrMore(c, min_diff) == c.diff >= min_diff

IsMinDiff(c, min_diff) == c.diff = min_diff

\* the candidates of minimal difference, in sorted order
BestList(cs) ==
  LET sorted == SortByDiff(cs)
      min_diff == sorted[1].diff
  IN  SelectSeq(sorted, LAMBDA c : IsMinDiff(c, min_diff))

\* ------------------------------------------------------------------ console input
\* lines the user may type at "Enter a number 1..N or press Enter to cancel"
ChoiceInputs ==
  { <<>>, <<" ">>, <<"0">>, <<"1">>, <<"2">>, <<"3">>, <<"9">>,
    <<" ", "2", " ">>, <<"-", "1">>, <<"x">> }

\* lines the user may type at a "[y/N]?" prompt
YesNoInputs ==
  { <<>>, <<" ">>, <<"y">>, <<"Y">>, <<"y", "e", "s">>, <<"Y", "e", "s">>,
    <<" ", "y", " ">>, <<"n">>, <<"N", "O">>, <<"n", "o">>,
    <<"y", "e">>, <<"x">>, <<"1">> }

\* a prompt whose default (an empty line) is yes
prompt_yes_no_default_yes(line) ==
  LET a == Lower(Strip(line))
  IN  IF a \in {<<>>, <<"y">>, <<"y", "e", "s">>} THEN "yes"
      ELSE IF a \in {<<"n">>, <<"n", "o">>} THEN "no"
      ELSE "again"

\* prompt_yes_no on one line of input: TRUE/FALSE returned, or asked again
prompt_yes_no(line) ==
  LET a == Lower(Strip(line))
  IN  IF a \in {<<"y">>, <<"y", "e", "s">>} THEN "yes"
      ELSE IF a \in {<<>>, <<"n">>, <<"n", "o">>} THEN "no"
      ELSE "again"

\* an input loop that gives up on a number out of range
ChoiceOutcomeGiveUp(line, n) ==
  LET c == Strip(line)
      v == int(c)
  IN  IF c = <<>> THEN [kind |-> "cancel", idx |-> 0]
      ELSE IF v.ok /\ 1 <= v.val /\ v.val <= n
        THEN [kind |-> "select", idx |-> v.val]
      ELSE IF v.ok THEN [kind |-> "cancel", idx |-> 0]
      ELSE [kind |-> "again", idx |-> 0]

\* one pass of the "while True" loop of find_best_release_group on one line
\* of input: cancel, a selection, or "Invalid choice. Try again."
ChoiceOutcome(line, n) ==
  LET c == Strip(line)
      v == int(c)
  IN  IF c = <<>> THEN [kind |-> "cancel", idx |-> 0]
      ELSE IF v.ok /\ 1 <= v.val /\ v.val <= n
        THEN [kind |-> "select", idx |-> v.val]
      ELSE [kind |-> "again", idx |-> 0]

\* ------------------------------------------------------------------ state
VARIABLES
  pc,                 \* where main (and the function it has called) stands
  local_track_count,  \* len(local_tracks)
  found,              \* ids of result['release-list']
  fetchlog,           \* per release looked up so far: the outcome of get_release_by_id
  groups,             \* rgid -> releases, in insertion order
  best_list,          \* the candidates of minimal difference
  choice,             \* the last line read by the disambiguation loop
  prompted,           \* find_best_release_group has read a line of input
  result,             \* (best_release, rg_dict)
  ans,                \* the last line read by prompt_yes_no, and at which prompt
  opened,             \* the MusicBrainz pages opened in the browser, in order
  fmt,                \* side_by_side_format: its arguments and its output
  srt,                \* the local track order: the tracks and the sorted list
  crd,                \* artist-credit flattening: the list and both renderings
  brg                 \* get_best_release_for_rg: its arguments and what it returns

vars == <<pc, local_track_count, found, fetchlog, groups, best_list, choice,
          prompted, result, ans, opened, fmt, srt, crd, brg>>

mainvars == <<pc, local_track_count, found, fetchlog, groups, best_list,
              choice, prompted, result, ans, opened>>

Idle == [on |-> FALSE]

\* ------------------------------------------------------------------ main
Init ==
  /\ pc = "main"
  /\ local_track_count \in 0..MaxLocal
  /\ found = <<>>
  /\ fetchlog = <<>>
  /\ groups = <<>>
  /\ best_list = <<>>
  /\ choice = <<>>
  /\ prompted = FALSE
  /\ result = NoneNone
  /\ ans = [at |-> "", line |-> <<>>]
  /\ opened = <<>>
  /\ fmt = Idle /\ srt = Idle /\ crd = Idle /\ brg = Idle

others == <<fmt, srt, crd, brg>>

\* main, lines 471-487: no audio tracks found ends the run with exit(1)
GatherLocal ==
  /\ pc = "main"
  /\ pc' = IF local_track_count = 0 THEN "exit1" ELSE "search"
  /\ UNCHANGED <<local_track_count, found, fetchlog, groups, best_list, choice,
                 prompted, result, ans, opened, others>>

\* search_releases(..., limit=10); an empty release-list returns (None, None)
Search ==
  /\ pc = "search"
  /\ \E n \in 0..MaxFound :
       /\ found' = SubSeq(RIDs, 1, n)
       /\ pc' = IF n = 0 THEN "returned" ELSE "fetch"
  /\ result' = NoneNone
  /\ UNCHANGED <<local_track_count, fetchlog, groups, best_list, choice,
                 prompted, ans, opened, others>>

\* the body of "for r in found" when get_release_by_id answers
FetchOk(rid, release_data) ==
  /\ groups' = SetDefaultAppend(groups, GroupKey(rid, release_data), release_data)
  /\ fetchlog' = Append(fetchlog, [ok |-> TRUE, rel |-> release_data])
  /\ pc' = "fetch"
  /\ UNCHANGED result

\* a failed lookup that ends the search
FetchFailAbort(rid) ==
  /\ groups' = groups
  /\ fetchlog' = fetchlog
  /\ pc' = "returned"
  /\ result' = NoneNone

\* ... and when it raises WebServiceError: continue
FetchFail(rid) ==
  /\ groups' = groups
  /\ fetchlog' = Append(fetchlog, [ok |-> FALSE, rel |-> NullRel])
  /\ pc' = "fetch"
  /\ UNCHANGED result

Fetch ==
  /\ pc = "fetch"
  /\ Len(fetchlog) < Len(found)
  /\ LET rid == found[Len(fetchlog) + 1]
     IN  \/ \E release_data \in Release(rid) : FetchOk(rid, release_data)
         \/ FetchFail(rid)
  /\ UNCHANGED <<local_track_count, found, best_list, choice, prompted, ans,
                 opened, others>>

\* after the loop: no groups returns (None, None); one best group returns
\* it; several print the list and enter the input loop
Score ==
  /\ pc = "fetch"
  /\ Len(fetchlog) = Len(found)
  /\ IF groups = <<>>
       THEN /\ best_list' = <<>>
            /\ result' = NoneNone
            /\ pc' = "returned"
       ELSE LET bl == BestList(Candidates(groups, local_track_count))
            IN  /\ best_list' = bl
                /\ IF Len(bl) = 1
                     THEN /\ result' = [ok |-> TRUE, rel |-> bl[1].rel, rg |-> bl[1].rg]
                          /\ pc' = "returned"
                     ELSE /\ result' = result
                          /\ pc' = "choose"
  /\ UNCHANGED <<local_track_count, found, fetchlog, groups, choice, prompted,
                 ans, opened, others>>

\* choice = input(...).strip() and the rest of one pass of the loop
ReadChoice ==
  /\ pc = "choose"
  /\ \E line \in ChoiceInputs :
       LET o == ChoiceOutcome(line, Len(best_list))
       IN  /\ choice' = line
           /\ prompted' = TRUE
           /\ CASE o.kind = "cancel" -> result' = NoneNone /\ pc' = "returned"
                [] o.kind = "select" ->
                     /\ result' = [ok |-> TRUE, rel |-> best_list[o.idx].rel,
                                   rg |-> best_list[o.idx].rg]
                     /\ pc' = "returned"
                [] OTHER -> result' = result /\ pc' = "choose"
  /\ UNCHANGED <<local_track_count, found, fetchlog, groups, best_list, ans,
                 opened, others>>

\* find_best_release_group has returned and its locals are gone; main
\* branches on "if not best_release", prints the diff and tests
\* 'rg_dict and "id" in rg_dict'
ReturnToMain ==
  /\ pc = "returned"
  /\ pc' = IF ~result.ok THEN "ask_nomatch"
           ELSE IF result.rg.kind = "rg" THEN "count"
           ELSE "ask_norg"
  /\ found' = <<>> /\ fetchlog' = <<>> /\ groups' = <<>> /\ best_list' = <<>>
  /\ choice' = <<>> /\ prompted' = FALSE
  /\ UNCHANGED <<local_track_count, result, ans, opened, others>>

\* one line read by prompt_yes_no at the prompt `at`
YesNo(at, on_yes, on_no) ==
  /\ pc = at
  /\ \E line \in YesNoInputs :
       /\ ans' = [at |-> at, line |-> line]
       /\ pc' = CASE prompt_yes_no(line) = "yes" -> on_yes
                  [] prompt_yes_no(line) = "no" -> on_no
                  [] OTHER -> at
  /\ UNCHANGED <<local_track_count, found, fetchlog, groups, best_list, choice,
                 prompted, result, opened, others>>

\* "No MB release group. Do you want to create a NEW Release Group?"
AskCreateNoMatch == YesNo("ask_nomatch", "mbid_nomatch", "exit0")

\* "No Release Group assigned. Do you want to create a new Release Group?"
AskCreateNoRG == YesNo("ask_norg", "mbid_norg", "count")

\* "Open release edit page now"
AskEdit == YesNo("ask_edit", "open_edit", "done")

\* artist_mbid = input(...): any line, kept only in the URL
ReadArtistMBID ==
  /\ pc \in {"mbid_nomatch", "mbid_norg"}
  /\ pc' = IF pc = "mbid_nomatch" THEN "create_nomatch" ELSE "create_norg"
  /\ UNCHANGED <<local_track_count, found, fetchlog, groups, best_list, choice,
                 prompted, result, ans, opened, others>>

\* create_release_group_on_musicbrainz: open_in_browser on the create form
CreateReleaseGroup ==
  /\ pc \in {"create_nomatch", "create_norg"}
  /\ opened' = Append(opened, "release-group/create")
  /\ pc' = IF pc = "create_nomatch" THEN "exit0" ELSE "count"
  /\ UNCHANGED <<local_track_count, found, fetchlog, groups, best_list, choice,
                 prompted, result, ans, others>>

\* the edit page is offered when local_track_count > mb_track_count (and the
\* release has an id)
EditOffered(local, best_release) ==
  local > get_mb_release_total_tracks(best_release) /\ best_release.id # <<>>

CountCheck ==
  /\ pc = "count"
  /\ pc' = IF EditOffered(local_track_count, result.rel) THEN "ask_edit"
           ELSE "done"
  /\ UNCHANGED <<local_track_count, found, fetchlog, groups, best_list, choice,
                 prompted, result, ans, opened, others>>

\* open_release_edit_page
OpenReleaseEdit ==
  /\ pc = "open_edit"
  /\ opened' = Append(opened, "release/edit")
  /\ pc' = "done"
  /\ UNCHANGED <<local_track_count, found, fetchlog, groups, best_list, choice,
                 prompted, result, ans, others>>

Next ==
  \/ GatherLocal \/ Search \/ Fetch \/ Score \/ ReadChoice \/ ReturnToMain
  \/ AskCreateNoMatch \/ AskCreateNoRG \/ AskEdit \/ ReadArtistMBID
  \/ CreateReleaseGroup \/ CountCheck \/ OpenReleaseEdit

Spec == Init /\ [][Next]_vars

\* ------------------------------------------------------------------ claims on Spec
MinOf(S) == CHOOSE x \in S : \A y \in S : x <= y

\* the releases fetched successfully so far, in the order of the search results
OkReleases ==
  LET oks == SelectSeq(fetchlog, LAMBDA e : e.ok)
  IN  [k \in 1..Len(oks) |-> oks[k].rel]

Members(k) == {groups[k].releases[m] : m \in 1..Len(groups[k].releases)}

TrackDiff(rel) == abs(get_mb_release_total_tracks(rel) - local_track_count)

\* the representative difference of group k
RepDiff(k) == MinOf({TrackDiff(r) : r \in Members(k)})

GlobalMin == MinOf({RepDiff(k) : k \in 1..Len(groups)})

\* the place in the search results where group k was first encountered
FirstSeen(k) ==
  MinOf({i \in 1..Len(fetchlog) : fetchlog[i].ok /\ fetchlog[i].rel \in Members(k)})

InLoopOrAfter == pc = "choose" \/ (pc = "returned" /\ prompted)

Selected == int(choice).ok /\ int(choice).val \in 1..Len(best_list)

\* C1: when two or more release-groups achieve the global minimum
\* representative difference, the candidates listed are exactly those
\* groups, in the order the groups were first encountered in the search
\* results, and a valid 1-based selection k returns the representative
\* release and the release-group of the k-th listed candidate.
C1_TiedCandidatesListed ==
  InLoopOrAfter =>
    LET min == GlobalMin
        tied == {k \in 1..Len(groups) : RepDiff(k) = min}
        seen == [k \in 1..Len(groups) |-> FirstSeen(k)]
    IN  /\ Cardinality(tied) >= 2
        /\ Len(best_list) = Cardinality(tied)
        /\ \A j \in 1..Len(best_list) :
             \E k \in tied :
               /\ best_list[j].rgid = groups[k].rgid
               /\ best_list[j].rel \in Members(k)
               /\ TrackDiff(best_list[j].rel) = min
               /\ best_list[j].diff = min
               /\ best_list[j].rg = groups[k].releases[1].rg
               /\ Cardinality({h \in tied : seen[h] < seen[k]}) = j - 1
        /\ (pc = "returned" /\ Selected) =>
             /\ result.ok
             /\ result.rel = best_list[int(choice).val].rel
             /\ result.rg = best_list[int(choice).val].rg

\* a third group of larger difference stays out of a list of two, and the
\* second listed candidate has been selected
C1_Witness ==
  /\ pc = "returned" /\ prompted
  /\ Len(groups) = 3 /\ Len(best_list) = 2 /\ GlobalMin > 0
  /\ best_list[1].rgid = groups[2].rgid
  /\ int(choice).ok /\ int(choice).val = 2
  /\ result.rel = best_list[2].rel

Scored ==
  /\ pc \in {"fetch", "choose", "returned"}
  /\ found # <<>> /\ Len(fetchlog) = Len(found)

\* C2: whenever exactly one release-group achieves the minimum
\* representative difference among the groups built from the fetched
\* releases, the function returns that group's representative release and
\* its release-group, and no input is read on the way.
C2_UniqueMinimumNoPrompt ==
  (Scored /\ groups # <<>>) =>
    LET min == GlobalMin
        tied == {k \in 1..Len(groups) : RepDiff(k) = min}
    IN  Cardinality(tied) = 1 =>
          /\ pc # "choose"
          /\ ~prompted
          /\ pc = "returned" =>
               \E k \in tied :
                 /\ result.ok
                 /\ result.rel \in Members(k)
                 /\ TrackDiff(result.rel) = min
                 /\ result.rg = groups[k].releases[1].rg

\* groups at difference 0 and 2: the difference-0 release, no prompt
C2_Witness ==
  /\ pc = "returned" /\ ~prompted /\ result.ok
  /\ Len(groups) = 2
  /\ RepDiff(1) = 2 /\ RepDiff(2) = 0
  /\ result.rel \in Members(2)

IsBlank(line) == \A k \in 1..Len(line) : line[k] = " "

\* C3 (as amended): in the disambiguation loop an input that is empty or
\* only whitespace ends the loop with (None, None); any other input that is
\* not an integer in 1..N never ends the loop; a release is returned only on
\* an integer in 1..N.
C3_LoopEndsOnBlankOrValid ==
  (pc = "returned" /\ prompted) =>
    \/ IsBlank(choice) /\ result = NoneNone
    \/ ~IsBlank(choice) /\ Selected /\ result.ok

\* the loop is still asking after an input that is neither blank nor a
\* number in range
C3_Witness ==
  /\ pc = "choose" /\ prompted
  /\ ~IsBlank(choice) /\ ~Selected

\* C3 as claimed: only the empty input yields (None, None); a non-numeric
\* input never does.
C3_OnlyEmptyCancels ==
  (pc = "returned" /\ prompted /\ result = NoneNone) => choice = <<>>

RECURSIVE GroupAll(_)
\* the grouping of a search in which every lookup succeeds
GroupAll(rels) ==
  IF rels = <<>> THEN <<>>
  ELSE LET r == rels[Len(rels)]
       IN  SetDefaultAppend(GroupAll(SubSeq(rels, 1, Len(rels) - 1)),
                            GroupKey(r.id, r), r)

\* C4: a failed lookup is skipped and the search goes on: the groups, the
\* tied list and the result are those of the same matching run on the
\* successfully fetched releases alone; when every lookup fails the result
\* is (None, None), as for an empty search result, and nothing is asked.
C4_FailedLookupsSkipped ==
  LET oks == OkReleases
      gs == GroupAll(oks)
  IN  /\ pc \in {"fetch", "choose", "returned"} => groups = gs
      /\ (pc \in {"choose", "returned"} /\ found # <<>>) =>
           /\ Len(fetchlog) = Len(found)
           /\ IF oks = <<>>
                THEN pc = "returned" /\ result = NoneNone /\ ~prompted
                ELSE LET bl == BestList(Candidates(gs, local_track_count))
                     IN  /\ best_list = bl
                         /\ Len(bl) = 1 =>
                              /\ pc = "returned" /\ ~prompted
                              /\ result = [ok |-> TRUE, rel |-> bl[1].rel,
                                           rg |-> bl[1].rg]
      /\ (pc = "returned" /\ found = <<>>) => result = NoneNone /\ ~prompted

\* the first lookup failed, the second and third succeeded and decide
C4_Witness ==
  /\ pc = "returned" /\ Len(fetchlog) = 3
  /\ ~fetchlog[1].ok /\ fetchlog[2].ok /\ fetchlog[3].ok
  /\ result.ok /\ result.rel = fetchlog[3].rel

YesLines ==
  {<<"y">>, <<"Y">>, <<"y", "e", "s">>, <<"Y", "e", "s">>, <<" ", "y", " ">>}

NoLines == {<<>>, <<" ">>, <<"n">>, <<"n", "o">>, <<"N", "O">>}

\* the confirmation that guards the side action taken at pc
GuardOf(at) ==
  CASE at = "create_nomatch" -> "ask_nomatch"
    [] at = "create_norg" -> "ask_norg"
    [] at = "open_edit" -> "ask_edit"
    [] OTHER -> "none"

\* C8: a page is opened in the browser only when the last yes/no answer was
\* a yes to the confirmation guarding that very action; a no or an empty
\* answer is followed by no side action; and the release-edit action is
\* offered only when the local track count is strictly greater than the
\* chosen release's total track count.
C8_SideActionsConfirmed ==
  [][ /\ opened' # opened =>
           /\ ans.line \in YesLines
           /\ ans.at = GuardOf(pc)
           /\ Len(opened') = Len(opened) + 1
           /\ SubSeq(opened', 1, Len(opened)) = opened
      /\ (pc \in {"ask_nomatch", "ask_norg", "ask_edit"} /\ pc' # pc
            /\ ans'.line \notin YesLines) =>
           pc' \in {"exit0", "count", "done"}
      /\ pc \in {"mbid_nomatch", "mbid_norg", "create_nomatch",
                 "create_norg", "open_edit"} =>
           ans.line \in YesLines /\ ans.at \in {"ask_nomatch", "ask_norg", "ask_edit"}
      /\ pc' = "ask_edit" =>
           local_track_count > get_mb_release_total_tracks(result.rel)
    ]_vars

\* both side actions of one run, each after its own yes
C8_Witness ==
  /\ pc = "done"
  /\ opened = <<"release-group/create", "release/edit">>

SameGroup(a, b) == \E k \in 1..Len(groups) : a \in Members(k) /\ b \in Members(k)

HasRG(rel) == rel.rg.kind = "rg"

\* C10: two fetched releases share a group if and only if both carry a
\* release-group with an id and the ids are equal; a release without one is
\* alone in a group keyed by "NO_RG_" and its own release id.
C10_Grouping ==
  pc \in {"fetch", "choose", "returned"} =>
    LET oks == OkReleases
    IN  /\ \A i \in 1..Len(oks) :
             /\ Cardinality({k \in 1..Len(groups) : oks[i] \in Members(k)}) = 1
             /\ ~HasRG(oks[i]) =>
                  \E k \in 1..Len(groups) :
                    /\ groups[k].releases = <<oks[i]>>
                    /\ groups[k].rgid = <<"NO_RG_">> \o oks[i].id
        /\ \A i, j \in 1..Len(oks) :
             i < j =>
               (SameGroup(oks[i], oks[j]) <=>
                  (HasRG(oks[i]) /\ HasRG(oks[j]) /\ oks[i].rg.id = oks[j].rg.id))

\* two releases of one release-group together, two group-less ones apart
C10_Witness ==
  /\ pc = "fetch" /\ Len(OkReleases) = 3 /\ Len(groups) = 2
  /\ ~HasRG(OkReleases[1]) /\ HasRG(OkReleases[2]) /\ HasRG(OkReleases[3])

\* ------------------------------------------------------------------ side_by_side_format
SeqsUpTo(S, n) == UNION {[1..k -> S] : k \in 0..n}

\* the lines given to the formatter: empty, blank, short, longer than the column
FmtLines == { <<>>, <<" ">>, <<"a">>, <<"a", "b", "c">> }

Spaces(n) == [k \in 1..n |-> " "]

\* a left column cut to the width
PadOrCut(l, left_width) ==
  IF Len(l) >= left_width THEN SubSeq(l, 1, left_width)
  ELSE l \o Spaces(left_width - Len(l))

\* f"{l:<{left_width}}": padded on the right up to the width, never cut
PadLeft(l, left_width) ==
  IF Len(l) >= left_width THEN l ELSE l \o Spaces(left_width - Len(l))

\* a test for "not empty" that counts a blank line as text
NotEmpty(l) == l # <<>>

\* "l.strip()" as a condition
Truthy(l) == Strip(l) # <<>>

\* the line the loop appends for index i
FormatLine(l, r, left_width, unify_if_identical) ==
  IF unify_if_identical /\ Truthy(l) /\ l = r
    THEN <<"=", "=", " ">> \o l
    ELSE PadLeft(l, left_width) \o <<" ", "|", " ">> \o r

At(lines, i) == IF i <= Len(lines) THEN lines[i] ELSE <<>>

InitFormat ==
  /\ pc = "format"
  /\ local_track_count = 0
  /\ found = <<>> /\ fetchlog = <<>> /\ groups = <<>> /\ best_list = <<>>
  /\ choice = <<>> /\ prompted = FALSE /\ result = NoneNone
  /\ ans = [at |-> "", line |-> <<>>] /\ opened = <<>>
  /\ srt = Idle /\ crd = Idle /\ brg = Idle
  /\ fmt \in [on : {TRUE},
              lines_left : SeqsUpTo(FmtLines, MaxLines),
              lines_right : SeqsUpTo(FmtLines, MaxLines),
              left_width : 1..MaxWidth,
              unify_if_identical : BOOLEAN,
              output : {<<>>}]

\* one pass of "for i in range(max_len)"
FormatStep ==
  /\ pc = "format"
  /\ Len(fmt.output) < Max(Len(fmt.lines_left), Len(fmt.lines_right))
  /\ LET i == Len(fmt.output) + 1
     IN  fmt' = [fmt EXCEPT !.output =
                   Append(@, FormatLine(At(fmt.lines_left, i), At(fmt.lines_right, i),
                                        fmt.left_width, fmt.unify_if_identical))]
  /\ UNCHANGED <<mainvars, srt, crd, brg>>

\* return output
FormatReturn ==
  /\ pc = "format"
  /\ Len(fmt.output) = Max(Len(fmt.lines_left), Len(fmt.lines_right))
  /\ pc' = "formatted"
  /\ UNCHANGED <<local_track_count, found, fetchlog, groups, best_list, choice,
                 prompted, result, ans, opened, fmt, srt, crd, brg>>

NextFormat == FormatStep \/ FormatReturn

SpecFormat == InitFormat /\ [][NextFormat]_vars

LeftAt(i) == At(fmt.lines_left, i)
RightAt(i) == At(fmt.lines_right, i)

IsUnified(line, l) == line = <<"=", "=", " ">> \o l

\* l, spaces, " | ", r
IsPaired(line, l, r) ==
  LET n == Len(line)
  IN  /\ n >= Len(l) + 3 + Len(r)
      /\ SubSeq(line, 1, Len(l)) = l
      /\ \A k \in (Len(l) + 1)..(n - Len(r) - 3) : line[k] = " "
      /\ SubSeq(line, n - Len(r) - 2, n - Len(r)) = <<" ", "|", " ">>
      /\ SubSeq(line, n - Len(r) + 1, n) = r

PairedAt(i) == ~IsUnified(fmt.output[i], LeftAt(i))

\* C6 (as amended): a Paired line is the whole left text, never cut,
\* padded with spaces up to the column width when shorter, then " | ", then
\* the right text unchanged; the right text starts at column
\* max(|left|, left_width) + 3, the same in every line whose left text fits
\* the column.
C6_PairedPaddedNeverCut ==
  fmt.on =>
    \A i \in 1..Len(fmt.output) :
      PairedAt(i) =>
        /\ IsPaired(fmt.output[i], LeftAt(i), RightAt(i))
        /\ Len(fmt.output[i]) - Len(RightAt(i))
             = Max(Len(LeftAt(i)), fmt.left_width) + 3

\* a left text longer than the column, kept whole
C6_Witness ==
  /\ fmt.on /\ pc = "formatted" /\ Len(fmt.output) >= 1
  /\ Len(LeftAt(1)) > fmt.left_width
  /\ PairedAt(1)
  /\ SubSeq(fmt.output[1], 1, Len(LeftAt(1))) = LeftAt(1)

\* C6 as claimed: the left text takes exactly the column width, so the
\* right text starts at the same column in every Paired line.
C6_RightColumnFixed ==
  fmt.on =>
    \A i \in 1..Len(fmt.output) :
      PairedAt(i) =>
        Len(fmt.output[i]) - Len(RightAt(i)) = fmt.left_width + 3

\* ------------------------------------------------------------------ local track order
\* the number a missing or non-numeric track number sorts as
Sentinel == 9999

\* code points of the characters subdirectory names are made of
Ord(c) == CASE c = " " -> 32 [] c = "a" -> 97 [] c = "b" -> 98

RECURSIVE StrLess(_, _)
\* s < t on str
StrLess(s, t) ==
  IF t = <<>> THEN FALSE
  ELSE IF s = <<>> THEN TRUE
  ELSE IF Head(s) # Head(t) THEN Ord(Head(s)) < Ord(Head(t))
  ELSE StrLess(Tail(s), Tail(t))

\* a tracknumber tag: None, or the text before "/"
NoTag == [set |-> FALSE, text |-> <<>>]
TrackNumbers ==
  {NoTag} \cup
  [set : {TRUE},
   text : { <<>>, <<"x">>, <<"2">>, <<"1", "0">>, <<"9", "9", "9", "8">>,
            <<"9", "9", "9", "9">>, <<"1", "0", "0", "0", "0">> }]

Subdirs == { <<>>, <<"a">> }

LocalTracks == [subdir : Subdirs, tracknumber : TrackNumbers]

\* track_sort_key(t)
track_sort_key(t) ==
  LET tn == t.tracknumber
      num == IF tn.set /\ tn.text # <<>>
               THEN (IF int(tn.text).ok THEN int(tn.text).val ELSE Sentinel)
               ELSE Sentinel
  IN  [subdir |-> t.subdir, num |-> num]

\* k1 < k2 on the tuples (subdir, num)
KeyLess(k1, k2) ==
  \/ StrLess(k1.subdir, k2.subdir)
  \/ k1.subdir = k2.subdir /\ k1.num < k2.num

RECURSIVE InsertByKey(_, _)
InsertByKey(sorted, t) ==
  IF sorted = <<>> THEN <<t>>
  ELSE IF KeyLess(track_sort_key(t), track_sort_key(sorted[Len(sorted)]))
    THEN Append(InsertByKey(SubSeq(sorted, 1, Len(sorted) - 1), t),
                sorted[Len(sorted)])
    ELSE Append(sorted, t)

RECURSIVE SortedByKey(_)
\* sorted(tracks, key=track_sort_key): a stable sort
SortedByKey(tracks) ==
  IF tracks = <<>> THEN <<>>
  ELSE InsertByKey(SortedByKey(SubSeq(tracks, 1, Len(tracks) - 1)),
                   tracks[Len(tracks)])

InitSort ==
  /\ pc = "sort"
  /\ local_track_count = 0
  /\ found = <<>> /\ fetchlog = <<>> /\ groups = <<>> /\ best_list = <<>>
  /\ choice = <<>> /\ prompted = FALSE /\ result = NoneNone
  /\ ans = [at |-> "", line |-> <<>>] /\ opened = <<>>
  /\ fmt = Idle /\ crd = Idle /\ brg = Idle
  /\ srt \in [on : {TRUE}, tracks : SeqsUpTo(LocalTracks, MaxTracks),
              sorted_local : {<<>>}]

\* sorted_local = sorted(local_data["tracks"], key=track_sort_key)
SortLocal ==
  /\ pc = "sort"
  /\ srt' = [srt EXCEPT !.sorted_local = SortedByKey(srt.tracks)]
  /\ pc' = "sorted"
  /\ UNCHANGED <<local_track_count, found, fetchlog, groups, best_list, choice,
                 prompted, result, ans, opened, fmt, crd, brg>>

NextSort == SortLocal

SpecSort == InitSort /\ [][NextSort]_vars

\* a track number that is present and numeric
Tagged(t) ==
  t.tracknumber.set /\ t.tracknumber.text # <<>> /\ int(t.tracknumber.text).ok

\* C7: in the sorted local track list, within one subdirectory, every track
\* with a numeric track number comes before every track whose track number
\* is missing or not numeric.
C7_UntaggedSortLast ==
  (srt.on /\ pc = "sorted") =>
    \A i, j \in 1..Len(srt.sorted_local) :
      ( /\ srt.sorted_local[i].subdir = srt.sorted_local[j].subdir
        /\ Tagged(srt.sorted_local[i])
        /\ ~Tagged(srt.sorted_local[j]) ) => i < j

\* ------------------------------------------------------------------ artist credits
\* an artist-credit entry: a bare string, a dict with an 'artist', or
\* anything else (skipped)
Credits ==
  [kind : {"str", "dict"}, name : {"A", "B"}] \cup {[kind |-> "other", name |-> ""]}

\* only the {artist:{name}} records resolved
ResolveDictsOnly(credits) ==
  LET kept == SelectSeq(credits, LAMBDA cred : cred.kind = "dict")
  IN  [k \in 1..Len(kept) |-> kept[k].name]

\* the names appended by the "for cred in ..." loop
ResolveNames(credits) ==
  LET kept == SelectSeq(credits, LAMBDA cred : cred.kind \in {"str", "dict"})
  IN  [k \in 1..Len(kept) |-> kept[k].name]

RECURSIVE Join(_, _)
\* sep.join(names), as the pieces of the resulting string
Join(names, sep) ==
  IF names = <<>> THEN <<>>
  ELSE IF Len(names) = 1 THEN names
  ELSE <<names[1], sep>> \o Join(Tail(names), sep)

\* ac_joined of the disambiguation listing
ListingArtist(credits) ==
  LET ac_names == ResolveNames(credits)
  IN  IF ac_names # <<>> THEN Join(ac_names, " & ") ELSE <<"(Unknown Artist)">>

\* the "Artist: ..." line of the release-level diff
DiffArtistLine(credits) ==
  LET mb_artists == ResolveNames(credits)
  IN  <<"Artist: ">> \o
      (IF mb_artists # <<>> THEN Join(mb_artists, " & ") ELSE <<"Unknown MB Artist">>)

Unset == <<"?">>

InitCredit ==
  /\ pc = "credit"
  /\ local_track_count = 0
  /\ found = <<>> /\ fetchlog = <<>> /\ groups = <<>> /\ best_list = <<>>
  /\ choice = <<>> /\ prompted = FALSE /\ result = NoneNone
  /\ ans = [at |-> "", line |-> <<>>] /\ opened = <<>>
  /\ fmt = Idle /\ srt = Idle /\ brg = Idle
  /\ crd \in [on : {TRUE}, credits : SeqsUpTo(Credits, MaxCredits),
              listing : {Unset}, artist_line : {Unset}]

\* find_best_release_group prints the candidate's line
ListCandidate ==
  /\ pc = "credit" /\ crd.listing = Unset
  /\ crd' = [crd EXCEPT !.listing = ListingArtist(crd.credits)]
  /\ UNCHANGED <<mainvars, fmt, srt, brg>>

\* generate_side_by_side_diff builds mb_rlines[0]
BuildArtistLine ==
  /\ pc = "credit" /\ crd.artist_line = Unset
  /\ crd' = [crd EXCEPT !.artist_line = DiffArtistLine(crd.credits)]
  /\ UNCHANGED <<mainvars, fmt, srt, brg>>

NextCredit == ListCandidate \/ BuildArtistLine

SpecCredit == InitCredit /\ [][NextCredit]_vars

OnlyNames(credits) == \A k \in 1..Len(credits) : credits[k].kind \in {"str", "dict"}

\* names[1] & names[2] & ... in list order
IsJoined(pieces, credits) ==
  /\ Len(pieces) = 2 * Len(credits) - 1
  /\ \A k \in 1..Len(credits) : pieces[2 * k - 1] = credits[k].name
  /\ \A k \in 1..(Len(credits) - 1) : pieces[2 * k] = " & "

\* C9 (as amended): for a list of bare strings and {artist:{name}} records
\* both places join the resolved names with " & " in list order; an empty
\* list renders as "(Unknown Artist)" in the disambiguation listing and as
\* "Unknown MB Artist" in the Artist line of the diff.
C9_FlatteningPerPlace ==
  (crd.on /\ OnlyNames(crd.credits)) =>
    /\ crd.listing # Unset =>
         IF crd.credits = <<>> THEN crd.listing = <<"(Unknown Artist)">>
         ELSE IsJoined(crd.listing, crd.credits)
    /\ crd.artist_line # Unset =>
         /\ Head(crd.artist_line) = "Artist: "
         /\ IF crd.credits = <<>>
              THEN Tail(crd.artist_line) = <<"Unknown MB Artist">>
              ELSE IsJoined(Tail(crd.artist_line), crd.credits)

\* a bare string and a record, flattened in both places
C9_Witness ==
  /\ crd.on /\ Len(crd.credits) = 2
  /\ crd.credits[1].kind = "str" /\ crd.credits[2].kind = "dict"
  /\ crd.listing = <<crd.credits[1].name, " & ", crd.credits[2].name>>
  /\ crd.artist_line = <<"Artist: ">> \o crd.listing

\* C9 as claimed: one rule in both places, the empty list rendering as
\* "(Unknown Artist)" in the listing and in the Artist line.
C9_SameRuleBothPlaces ==
  (crd.on /\ OnlyNames(crd.credits) /\ crd.listing # Unset
     /\ crd.artist_line # Unset) =>
    /\ Tail(crd.artist_line) = crd.listing
    /\ crd.credits = <<>> => crd.listing = <<"(Unknown Artist)">>

\* ------------------------------------------------------------------ get_best_release_for_rg
\* medium-lists of the releases of one group: none, one medium, several
GroupMediums == { <<>>, <<1>>, <<3>>, <<1, 1>>, <<1, 3>> }

\* the releases of one release-group, in encounter order
GroupReleases(medias) ==
  [k \in 1..Len(medias) |->
     [id |-> RIDs[k], rg |-> [kind |-> "rg", id |-> <<"g1">>], media |-> medias[k]]]

InitBest ==
  /\ pc = "best"
  /\ local_track_count = 0
  /\ found = <<>> /\ fetchlog = <<>> /\ groups = <<>> /\ best_list = <<>>
  /\ choice = <<>> /\ prompted = FALSE /\ result = NoneNone
  /\ ans = [at |-> "", line |-> <<>>] /\ opened = <<>>
  /\ fmt = Idle /\ srt = Idle /\ crd = Idle
  /\ \E medias \in SeqsUpTo(GroupMediums, MaxGroup) \ {<<>>} :
       brg \in [on : {TRUE}, rg_releases : {GroupReleases(medias)},
                local_track_count : 0..MaxLocal,
                best : {NullRel}, best_diff : {0}]

\* best_rel, best_diff = get_best_release_for_rg(releases_in_group, local_track_count)
CallBest ==
  /\ pc = "best"
  /\ LET b == get_best_release_for_rg(brg.rg_releases, brg.local_track_count)
     IN  brg' = [brg EXCEPT !.best = b.rel, !.best_diff = b.diff]
  /\ pc' = "best_returned"
  /\ UNCHANGED <<local_track_count, found, fetchlog, groups, best_list, choice,
                 prompted, result, ans, opened, fmt, srt, crd>>

NextBest == CallBest

SpecBest == InitBest /\ [][NextBest]_vars

\* the tracks of a release, one pair (medium, position) each
TracksOf(rel) ==
  UNION {{<<m, t>> : t \in 1..rel.media[m]} : m \in 1..Len(rel.media)}

\* |total track count - local track count|
Distance(rel, local) ==
  LET total == Cardinality(TracksOf(rel))
  IN  IF total >= local THEN total - local ELSE local - total

\* C11: for every non-empty group and every local track count,
\* get_best_release_for_rg returns a member whose |total track count - local
\* track count| is the minimum over the group, together with that minimum
\* (never negative), and among several members at the minimum the first in
\* encounter order; the total track count is the number of tracks over all
\* media of the release.
C11_ClosestFirstWins ==
  (brg.on /\ pc = "best_returned") =>
    LET rels == brg.rg_releases
        local == brg.local_track_count
    IN  /\ brg.best_diff >= 0
        /\ \E p \in 1..Len(rels) :
             /\ brg.best = rels[p]
             /\ brg.best_diff = Distance(rels[p], local)
             /\ \A m \in 1..Len(rels) : Distance(rels[m], local) >= brg.best_diff
             /\ \A m \in 1..(p - 1) : Distance(rels[m], local) > brg.best_diff

\* the second and third release tie below the first, one of them over two
\* media; the second is returned
C11_Witness ==
  /\ brg.on /\ pc = "best_returned"
  /\ Len(brg.rg_releases) = 3
  /\ brg.best = brg.rg_releases[2]
  /\ brg.best_diff > 0
  /\ Len(brg.best.media) = 2
  /\ Distance(brg.rg_releases[3], brg.local_track_count) = brg.best_diff
  /\ Distance(brg.rg_releases[1], brg.local_track_count) > brg.best_diff

====
